---------------------------- MODULE Spec2Model ----------------------------
(***************************************************************************)
(* A model of hook86, a runtime patching library for 32-bit x86 code.      *)
(*                                                                         *)
(*   - hook86/src/asm.rs: the branch encoders (call, jmp, jz, jl, jge,     *)
(*     push) and the branch decoder get_branch_target;                     *)
(*   - hook86_macro/src/lib.rs: the patch! template compiler;              *)
(*   - hook86/src/patch.rs: PatchPlaceholder::set_value, and the bind of   *)
(*     a generated patch type;                                             *)
(*   - hook86/src/mem.rs: unprotect, patch and the ByteSearcher            *)
(*     (module discovery, scope resolution, the region walk and the two    *)
(*     searches).                                                          *)
(*                                                                         *)
(* The library supports 32-bit x86 only (mem.rs:15-19), so usize, isize    *)
(* and pointers are 32 bits wide.  A 32-bit word is kept as a pair         *)
(* <<hi, lo>> of 16-bit halves and all arithmetic is done on the halves,   *)
(* with the carries the hardware produces.                                 *)
(*                                                                         *)
(* Rust's + on integers panics on overflow when the crate is built with    *)
(* overflow checks (the default of the dev and test profiles) and wraps    *)
(* otherwise (the default of the release profile).  The build is not       *)
(* fixed by the repository, so the variable overflow_checks is chosen in   *)
(* the initial state.  Pointer::offset is address arithmetic modulo 2^32.  *)
(***************************************************************************)
EXTENDS Integers, Sequences, FiniteSets

VARIABLES
    overflow_checks,  \* the build: TRUE when + panics on overflow
    from,             \* asm: the address of the instruction
    to,               \* asm: the destination (or the immediate of push)
    mem,              \* asm: the six bytes of memory at address `from`
    encoder,          \* asm: the encoder that was called, or "none"
    insn,             \* asm: what the encoder returned
    patched,          \* asm: what mem::patch returned
    target,           \* asm: what get_branch_target returned
    template,         \* patch: the tokens between the brackets of patch!
    compiled,         \* patch: what compiling the patch! invocation gave
    buf_addr,         \* patch: the address of the buffer
    buf,              \* patch: the bytes of the buffer (__buf)
    fields,           \* patch: the PatchPlaceholders owned with the buffer
    prot,             \* patch: the protection of the buffer's memory
    bound,            \* patch: what the last set_value or bind returned
    protect_calls,    \* patch: the protection requests the last bind issued
    pages,            \* search: state and protection of every page
    image,            \* search: the bytes of the process's memory
    loaded,           \* search: what the module services report
    modules,          \* search: ByteSearcher::modules
    discovered,       \* search: what the last discover_modules returned
    func,             \* search: the search function that was called
    needles,          \* search: its patterns or its addresses
    protection,       \* search: its protection argument
    module_names,     \* search: its modules argument
    ranges,           \* search: the ranges handed to search_in_ranges
    range_i,          \* search: the range being walked
    walk_addr,        \* search: the walk address (addr)
    results,          \* search: the results array
    queried,          \* search: the addresses VirtualQuery was asked about
    scanned,          \* search: the slices handed to the search function
    pc                \* the position of the caller

asmVars == <<from, to, mem, encoder, insn, patched, target>>
patchVars ==
    <<template, compiled, buf_addr, buf, fields, prot, bound, protect_calls>>
envVars == <<pages, image, loaded>>
callVars == <<func, needles, protection, module_names, ranges>>
walkVars == <<range_i, walk_addr, results, queried, scanned>>
searchVars == <<envVars, modules, discovered, callVars, walkVars>>
vars == <<overflow_checks, asmVars, patchVars, searchVars, pc>>

---------------------------------------------------------------------------
(* 32-bit words *)

Half == 256 * 256
Byte == 0 .. 255

Word(hi, lo) == <<hi, lo>>
Zero == Word(0, 0)
\* a small non-negative number (an instruction length, an offset) as a word
OfNat(n) == Word(n \div Half, n % Half)

\* a + b modulo 2^32 (usize::wrapping_add, and what + compiles to without
\* overflow checks)
WrappingAdd(a, b) ==
    LET lo == a[2] + b[2]
        hi == a[1] + b[1] + (lo \div Half)
    IN  Word(hi % Half, lo % Half)

\* the carry out of the unsigned addition: a + b > usize::MAX
UnsignedAddOverflows(a, b) ==
    (a[1] + b[1] + ((a[2] + b[2]) \div Half)) >= Half

IsNegative(a) == a[1] >= 32768

\* the signed addition a + b leaves the range of isize
SignedAddOverflows(a, b) ==
    /\ IsNegative(a) = IsNegative(b)
    /\ IsNegative(WrappingAdd(a, b)) # IsNegative(a)

\* a - b modulo 2^32 (usize::overflowing_sub(..).0)
OverflowingSub(a, b) ==
    LET lo == a[2] - b[2]
        borrow == IF lo < 0 THEN 1 ELSE 0
        hi == a[1] - b[1] - borrow
    IN  Word((hi + Half) % Half, (lo + Half) % Half)

\* u32::to_le_bytes / usize::to_le_bytes
ToLeBytes(w) ==
    <<w[2] % 256, w[2] \div 256, w[1] % 256, w[1] \div 256>>

\* ptr::read_unaligned of a 32-bit value from four bytes (little-endian)
ReadUnaligned32(b) ==
    Word(b[3] + 256 * b[4], b[1] + 256 * b[2])

\* `as isize` of an i8: sign extension
I8AsIsize(b) ==
    IF b >= 128 THEN Word(65535, 65280 + b) ELSE Word(0, b)

\* the outcomes of a call
Ok(v) == [tag |-> "Ok", val |-> v]
Panic == [tag |-> "Panic", val |-> "attempt to add with overflow"]
None == [tag |-> "None", val |-> <<>>]

\* usize + usize as the build compiles it
CheckedUsizeAdd(a, b) ==
    IF overflow_checks /\ UnsignedAddOverflows(a, b)
    THEN Panic
    ELSE Ok(WrappingAdd(a, b))

\* isize + isize as the build compiles it
CheckedIsizeAdd(a, b) ==
    IF overflow_checks /\ SignedAddOverflows(a, b)
    THEN Panic
    ELSE Ok(WrappingAdd(a, b))

---------------------------------------------------------------------------
(* hook86/src/asm.rs *)

NOP == 144

SingleByteOpcode(ptr, opcode) ==
    [tag |-> "SingleByteOpcode", ptr |-> ptr, opcode |-> opcode]
DoubleByteOpcode(ptr, opcode1, opcode2) ==
    [tag |-> "DoubleByteOpcode", ptr |-> ptr, opcode1 |-> opcode1,
     opcode2 |-> opcode2]

\* the bytes of `m` (the memory at ptr) at offsets k .. k+3
BytesAt(m, k) == <<m[k + 1], m[k + 2], m[k + 3], m[k + 4]>>

\* read_unaligned(ptr.offset(N - 4) as *const isize) + N, then
\* ptr.offset(original_jump_offset)
get_absolute_from_rel32(N, ptr, m) ==
    LET original_jump_offset ==
            CheckedIsizeAdd(ReadUnaligned32(BytesAt(m, N - 4)), OfNat(N))
    IN  IF original_jump_offset.tag = "Panic"
        THEN Panic
        ELSE Ok(WrappingAdd(ptr, original_jump_offset.val))

\* read_unaligned((ptr as *const i8).offset(1)) as isize, then
\* ptr.offset(original_jump_offset)
get_absolute_from_rel8(ptr, m) ==
    LET original_jump_offset == I8AsIsize(m[2])
    IN  Ok(WrappingAdd(ptr, original_jump_offset))

\* the opcodes of the `short jumps` arm, as the source lists them
ShortJumpOpcodes ==
    {235, 119, 115, 114, 118, 227, 116, 127, 125, 124, 113, 123, 121, 117,
     112, 122, 120}

\* the sub-opcodes of the `conditional jumps` arm, as the source lists them
CondJumpSubOpcodes ==
    {132, 140, 141, 135, 131, 130, 134, 143, 142, 133, 139, 129, 137, 128,
     138, 136}

get_branch_target_single_only(ptr, m) ==
    LET opcode == m[1]
    IN  IF opcode \in {232, 233} THEN get_absolute_from_rel32(5, ptr, m)
        ELSE IF opcode \in {154, 234} THEN Ok(ReadUnaligned32(BytesAt(m, 1)))
        ELSE IF opcode \in ShortJumpOpcodes THEN get_absolute_from_rel8(ptr, m)
        ELSE IF opcode = 15 /\ m[2] \in CondJumpSubOpcodes
             THEN get_absolute_from_rel32(6, ptr, m)
        ELSE SingleByteOpcode(ptr, opcode)

get_branch_target(ptr, m) ==
    LET opcode == m[1]
    IN  IF opcode \in {232, 233} THEN get_absolute_from_rel32(5, ptr, m)
        ELSE IF opcode \in {154, 234} THEN Ok(ReadUnaligned32(BytesAt(m, 1)))
        ELSE IF opcode \in ShortJumpOpcodes THEN get_absolute_from_rel8(ptr, m)
        ELSE IF opcode = 15
             THEN LET sub_opcode == m[2]
                  IN  IF sub_opcode \in CondJumpSubOpcodes
                      THEN get_absolute_from_rel32(6, ptr, m)
                      ELSE DoubleByteOpcode(ptr, opcode, sub_opcode)
        ELSE SingleByteOpcode(ptr, opcode)

\* to.overflowing_sub(from + N).0.to_le_bytes()
addr_offset(N, f, t) ==
    LET end == CheckedUsizeAdd(f, OfNat(N))
    IN  IF end.tag = "Panic"
        THEN Panic
        ELSE Ok(ToLeBytes(OverflowingSub(t, end.val)))

call(f, t) ==
    LET bytes == addr_offset(5, f, t)
    IN  IF bytes.tag = "Panic" THEN Panic
        ELSE Ok(<<232, bytes.val[1], bytes.val[2], bytes.val[3], bytes.val[4]>>)

jmp(f, t) ==
    LET bytes == addr_offset(5, f, t)
    IN  IF bytes.tag = "Panic" THEN Panic
        ELSE Ok(<<233, bytes.val[1], bytes.val[2], bytes.val[3], bytes.val[4]>>)

cond_jmp(f, t, cond) ==
    LET bytes == addr_offset(6, f, t)
    IN  IF bytes.tag = "Panic" THEN Panic
        ELSE Ok(<<15, cond, bytes.val[1], bytes.val[2], bytes.val[3],
                  bytes.val[4]>>)

jz(f, t) == cond_jmp(f, t, 132)
jl(f, t) == cond_jmp(f, t, 140)
jge(f, t) == cond_jmp(f, t, 141)

push(imm) ==
    LET bytes == ToLeBytes(imm)
    IN  Ok(<<104, bytes[1], bytes[2], bytes[3], bytes[4]>>)

---------------------------------------------------------------------------
(* hook86/src/mem.rs: patch *)

\* the first Len(data) bytes of `m` replaced by `data`
CopyFromSlice(m, data) ==
    [i \in 1 .. Len(m) |-> IF i <= Len(data) THEN data[i] ELSE m[i]]

Win32Error == [tag |-> "Err", val |-> "VirtualProtect"]

\* unprotect(ptr, size) on memory whose protection is old_protect: one
\* VirtualProtect request for PAGE_EXECUTE_READWRITE, which the system grants
\* or refuses; `?` hands the refusal to the caller.  The result, the
\* protection afterwards and the requests issued.
unprotect(old_protect, granted) ==
    IF granted
    THEN [result |-> Ok(old_protect), prot |-> "rwx", calls |-> 1]
    ELSE [result |-> Win32Error, prot |-> old_protect, calls |-> 1]

---------------------------------------------------------------------------
(* The encoders and the decoder in use: a caller assembles a branch at     *)
(* `from`, patches it into memory and decodes it again; or decodes an      *)
(* instruction that is already in memory.                                  *)

\* 0x00000000, 0x00000002, 0x7FFFFF10, 0x80000000, 0x80000010, 0x800000E0,
\* 0x800000F0, 0xFFFFFFFA, 0xFFFFFFFB, 0xFFFFFFFE
Addrs ==
    {Word(0, 0), Word(0, 2), Word(32767, 65296), Word(32768, 0),
     Word(32768, 16), Word(32768, 224), Word(32768, 240),
     Word(65535, 65530), Word(65535, 65531), Word(65535, 65534)}

\* where an instruction that is already in memory is decoded:
\* 0x00400000, 0x80000000, 0xFFFFFFFE
RawAddrs == {Word(64, 0), Word(32768, 0), Word(65535, 65534)}

\* the byte after the opcode of an instruction already in memory
SecondBytes == {0, 1, 5, 126, 127, 128, 132, 143, 144, 250, 251, 254, 255}

\* the bytes at offsets 2 .. 5 of an instruction already in memory
Tails ==
    {<<0, 0, 0, 0>>, <<255, 255, 127, 0>>, <<255, 255, 255, 255>>,
     <<255, 255, 255, 127>>}

RawInsns ==
    {<<b0, b1>> \o t :
        b0 \in Byte \ {15}, b1 \in SecondBytes, t \in Tails}
    \cup {<<15, b1>> \o t : b1 \in Byte, t \in Tails}

ZeroMem == <<0, 0, 0, 0, 0, 0>>

\* no template, no patch instance
NoPatch ==
    /\ template = <<>>
    /\ compiled = None
    /\ buf_addr = Zero
    /\ buf = <<>>
    /\ fields = <<>>
    /\ prot = "none"
    /\ bound = None
    /\ protect_calls = 0

\* no searcher, no search
NoSearch ==
    /\ pages = <<>>
    /\ image = <<>>
    /\ loaded = <<>>
    /\ modules = <<>>
    /\ discovered = None
    /\ func = "none"
    /\ needles = <<>>
    /\ protection = None
    /\ module_names = <<>>
    /\ ranges = <<>>
    /\ range_i = 0
    /\ walk_addr = 0
    /\ results = <<>>
    /\ queried = <<>>
    /\ scanned = <<>>

InitAsm ==
    /\ overflow_checks \in BOOLEAN
    /\ NoPatch
    /\ NoSearch
    /\ encoder = "none"
    /\ insn = None
    /\ patched = None
    /\ target = None
    /\ \/ /\ pc = "start"
          /\ from \in Addrs
          /\ to \in Addrs
          /\ mem = ZeroMem
       \/ /\ pc = "raw"
          /\ from \in RawAddrs
          /\ to = Zero
          /\ mem \in RawInsns

\* the caller calls encoder `name`, which returns `result`
Encode(name, result) ==
    /\ pc = "start"
    /\ encoder' = name
    /\ insn' = result
    /\ pc' = IF result.tag = "Panic" THEN "panicked" ELSE "encoded"
    /\ UNCHANGED <<overflow_checks, from, to, mem, patched, target, patchVars,
                   searchVars>>

Call == Encode("call", call(from, to))
Jmp == Encode("jmp", jmp(from, to))
Jz == Encode("jz", jz(from, to))
Jl == Encode("jl", jl(from, to))
Jge == Encode("jge", jge(from, to))
Push == Encode("push", push(to))

\* mem::patch(from, insn): unprotect, copy, restore the protection; either
\* VirtualProtect call may fail
Patch ==
    /\ pc = "encoded"
    /\ pc' = "patched"
    /\ \/ /\ patched' = Win32Error          \* unprotect failed: nothing written
          /\ mem' = mem
       \/ /\ patched' \in {Ok(<<>>), Win32Error}   \* the result of protect
          /\ mem' = CopyFromSlice(mem, insn.val)
    /\ UNCHANGED <<overflow_checks, from, to, encoder, insn, target, patchVars,
                   searchVars>>

GetBranchTarget ==
    /\ pc \in {"raw", "patched"}
    /\ target' = get_branch_target(from, mem)
    /\ pc' = IF target'.tag = "Panic" THEN "panicked" ELSE "decoded"
    /\ UNCHANGED <<overflow_checks, from, to, mem, encoder, insn, patched,
                   patchVars, searchVars>>

NextAsm ==
    \/ Call
    \/ Jmp
    \/ Jz
    \/ Jl
    \/ Jge
    \/ Push
    \/ Patch
    \/ GetBranchTarget

SpecAsm == InitAsm /\ [][NextAsm]_vars

---------------------------------------------------------------------------
(* Claims about the encoders and the decoder, checked under SpecAsm *)

BranchEncoders == {"call", "jmp", "jz", "jl", "jge"}

\* the length of the instruction an encoder emits
InsnLen(name) == IF name \in {"call", "jmp"} THEN 5 ELSE 6

\* the opcode bytes an encoder emits
OpcodeBytes(name) ==
    CASE name = "call" -> <<232>>
      [] name = "jmp"  -> <<233>>
      [] name = "jz"   -> <<15, 132>>
      [] name = "jl"   -> <<15, 140>>
      [] name = "jge"  -> <<15, 141>>

\* (to - (from + N)) mod 2^32
Displacement(f, t, N) == OverflowingSub(t, WrappingAdd(f, OfNat(N)))

\* the instruction the encoder returned is what memory holds at `from`
Placed ==
    /\ insn.tag = "Ok"
    /\ \A i \in 1 .. Len(insn.val) : mem[i] = insn.val[i]

\* get_branch_target has been called (it returned or panicked)
Decoded == target # None

\* the one-byte opcodes the decoder is to accept as short jumps:
\* 0xEB, 0xE3 and 0x70 .. 0x7F
SpecShortJumps == {235, 227} \cup (112 .. 127)

\* the second bytes of the two-byte conditional jumps: 0x80 .. 0x8F
SpecCondJumps == 128 .. 143

\* address + len + sign-extended byte
Rel8Target(ptr, len, b) ==
    WrappingAdd(WrappingAdd(ptr, OfNat(len)), I8AsIsize(b))

\* address + len + the 32-bit operand at offset k
Rel32Target(ptr, len, m, k) ==
    WrappingAdd(WrappingAdd(ptr, OfNat(len)), ReadUnaligned32(BytesAt(m, k)))

\* C1 (as claimed): round trip.  For every (from, to) and each of call, jmp,
\* jz, jl and jge, the encoder returns an instruction, and decoding that
\* instruction placed at `from` returns exactly `to`.
C1_RoundTrip ==
    (encoder \in BranchEncoders) =>
        /\ insn.tag = "Ok"
        /\ (Placed /\ Decoded) => target = Ok(to)

\* C2 (as claimed): wraparound determinism.  For every (from, to), also when
\* from + N exceeds 0xFFFFFFFF, the branch encoder succeeds and emits the
\* displacement (to - (from + N)) mod 2^32 after its opcode bytes.
C2_WraparoundNeverFails ==
    (encoder \in BranchEncoders) =>
        insn = Ok(OpcodeBytes(encoder)
                  \o ToLeBytes(Displacement(from, to, InsnLen(encoder))))

\* C3 (as claimed): for a short (rel8) branch at `address` the decoder
\* returns address + 2 + signed8(byte at address + 1).
C3_ShortTarget ==
    (Decoded /\ mem[1] \in SpecShortJumps) =>
        target = Ok(Rel8Target(from, 2, mem[2]))

\* C4 (as claimed): each of the 18 leading bytes 0xEB, 0xE3, 0x70 .. 0x7F
\* makes the decoder return a target, never an UnexpectedOpcodeError.
C4_ShortOpcodesAccepted ==
    (Decoded /\ mem[1] \in SpecShortJumps) => target.tag = "Ok"

\* C5 (as claimed): the decoder returns address + 5 + signed32(bytes 1..4)
\* for 0xE8/0xE9, address + 6 + signed32(bytes 2..5) for 0x0F followed by
\* 0x80 .. 0x8F, and the operand at +1 verbatim for 0x9A/0xEA.
C5_Rel32Targets ==
    Decoded =>
        /\ mem[1] \in {232, 233} => target = Ok(Rel32Target(from, 5, mem, 1))
        /\ (mem[1] = 15 /\ mem[2] \in SpecCondJumps) =>
               target = Ok(Rel32Target(from, 6, mem, 2))
        /\ mem[1] \in {154, 234} => target = Ok(ReadUnaligned32(BytesAt(mem, 1)))

\* C6: error classification.  Leading byte 0x0F followed by a byte outside
\* 0x80 .. 0x8F: a double-byte-opcode error carrying both bytes and the
\* address.  Any other unsupported leading byte: a single-byte-opcode error
\* carrying the byte and the address.  Never a target in either case.
C6_ErrorClassification ==
    Decoded =>
        /\ (mem[1] = 15 /\ mem[2] \notin SpecCondJumps) =>
               target = DoubleByteOpcode(from, 15, mem[2])
        /\ mem[1] \notin ({232, 233, 154, 234, 15} \cup SpecShortJumps) =>
               target = SingleByteOpcode(from, mem[1])

\* C6 witness: 0x0F 0x7F at 0xFFFFFFFE has been decoded to a double-byte
\* error
C6_Witness ==
    /\ pc = "decoded"
    /\ from = Word(65535, 65534)
    /\ mem[1] = 15 /\ mem[2] = 127
    /\ target.tag = "DoubleByteOpcode"

\* C7 (as claimed): byte layout.  call/jmp return exactly 5 bytes, the
\* opcode and rel32 = to - (from + 5) little-endian; jz/jl/jge exactly 6
\* bytes, 0x0F, the condition byte and rel32 = to - (from + 6); and the
\* three literal vectors.
C7_ByteLayout ==
    (encoder \in BranchEncoders) =>
        /\ insn.tag = "Ok"
        /\ Len(insn.val) = InsnLen(encoder)
        /\ SubSeq(insn.val, 1, InsnLen(encoder) - 4) = OpcodeBytes(encoder)
        /\ ReadUnaligned32(BytesAt(insn.val, InsnLen(encoder) - 4))
               = Displacement(from, to, InsnLen(encoder))
        /\ (encoder = "call" /\ from = Word(32768, 0) /\ to = Word(32768, 16))
               => insn.val = <<232, 11, 0, 0, 0>>
        /\ (encoder = "jl" /\ from = Word(32768, 0) /\ to = Word(32768, 240))
               => insn.val = <<15, 140, 234, 0, 0, 0>>
        /\ (encoder = "jge" /\ from = Word(32768, 0) /\ to = Word(32768, 224))
               => insn.val = <<15, 141, 218, 0, 0, 0>>

\* In a build where + wraps, C1, C2, C5 and C7 hold as claimed: they fail
\* only where an overflow check panics.
WrappingBuildAgrees ==
    ~overflow_checks =>
        C1_RoundTrip /\ C2_WraparoundNeverFails /\ C5_Rel32Targets
        /\ C7_ByteLayout

---------------------------------------------------------------------------
(* hook86_macro/src/lib.rs: the patch! macro                               *)
(*                                                                         *)
(* A token is an integer literal, an identifier or a comma.                *)

Lit(n) == [k |-> "lit", n |-> n, s |-> ""]
Ident(name) == [k |-> "ident", n |-> 0, s |-> name]
Comma == [k |-> "comma", n |-> 0, s |-> ","]

Bytes(bytes) == [kind |-> "Bytes", bytes |-> bytes, name |-> ""]
Rel32(opcode, name) == [kind |-> "Rel32", bytes |-> opcode, name |-> name]
Imm32(name) == [kind |-> "Imm32", bytes |-> <<>>, name |-> name]

size_without_opcode(component) ==
    CASE component.kind = "Bytes" -> Len(component.bytes)
      [] component.kind = "Rel32" -> 4
      [] component.kind = "Imm32" -> 4

\* PatchComponent::size
size(component) ==
    CASE component.kind = "Bytes" -> Len(component.bytes)
      [] component.kind = "Rel32" -> Len(component.bytes) + 4
      [] component.kind = "Imm32" -> 4

\* PatchComponent::buf_tokens
buf_tokens(component) ==
    CASE component.kind = "Bytes" -> component.bytes
      [] component.kind = "Rel32" -> component.bytes \o <<0, 0, 0, 0>>
      [] component.kind = "Imm32" -> <<0, 0, 0, 0>>

\* a syn::Error: the message and the index of the token its span points at
\* (Len + 1: the end of the input)
SynError(msg, at) == [tag |-> "Err", msg |-> msg, at |-> at]

\* the instructions that are one literal byte (the byte! arms)
ByteInstructions ==
    [pushad |-> 96, popad |-> 97, ret |-> 195, retn |-> 195]

\* the second opcode byte of the conditional jumps, by mnemonic
CondJumps ==
    [jz |-> 132, je |-> 132, jl |-> 140, jnge |-> 140, jge |-> 141,
     jnl |-> 141, ja |-> 135, jnbe |-> 135, jae |-> 131, jnb |-> 131,
     jnc |-> 131, jb |-> 130, jc |-> 130, jnae |-> 130, jbe |-> 134,
     jna |-> 134, jg |-> 143, jnle |-> 143, jle |-> 142, jng |-> 142,
     jne |-> 133, jnz |-> 133, jno |-> 129, jnp |-> 139, jpo |-> 139,
     jns |-> 137, jo |-> 128, jp |-> 138, jpe |-> 138, js |-> 136]

\* the instructions of the second match, which take a target
TargetInstructions ==
    {"imm32", "rel32", "call", "jmp", "push"} \cup DOMAIN CondJumps

\* the second match of the loop: the component of `instruction target`
ComponentOf(inst_string, tgt) ==
    CASE inst_string = "imm32" -> Imm32(tgt)
      [] inst_string = "rel32" -> Rel32(<<>>, tgt)
      [] inst_string = "call" -> Rel32(<<232>>, tgt)
      [] inst_string = "jmp" -> Rel32(<<233>>, tgt)
      [] inst_string \in DOMAIN CondJumps ->
             Rel32(<<15, CondJumps[inst_string]>>, tgt)
      [] inst_string = "push" -> Imm32(tgt)

\* if content.peek(Token![,]) { content.parse::<Token![,]>()?; }
SkipComma(content, i) ==
    IF i <= Len(content) /\ content[i].k = "comma" THEN i + 1 ELSE i

\* the components with the literal bytes collected so far flushed
Flush(components, current_buf) ==
    IF current_buf # <<>>
    THEN Append(components, Bytes(current_buf))
    ELSE components

RECURSIVE ParseLoop(_, _, _, _)
\* the while loop of Patch::parse, from token i on
ParseLoop(content, i, components, current_buf) ==
    IF i > Len(content)
    THEN Ok(Flush(components, current_buf))
    ELSE IF content[i].k = "lit"
    THEN IF content[i].n > 255
         THEN SynError("number too large to fit in target type", i)
         ELSE ParseLoop(content, SkipComma(content, i + 1), components,
                        Append(current_buf, content[i].n))
    ELSE IF content[i].k # "ident"
    THEN SynError("expected identifier", i)
    ELSE LET inst_string == content[i].s
         IN  IF inst_string \in DOMAIN ByteInstructions
             THEN \* byte!: push and `continue`, past the comma check
                  ParseLoop(content, i + 1, components,
                            Append(current_buf, ByteInstructions[inst_string]))
             ELSE IF i + 1 > Len(content)
             THEN SynError("unexpected end of input, expected identifier",
                           i + 1)
             ELSE IF content[i + 1].k # "ident"
             THEN SynError("expected identifier", i + 1)
             ELSE IF inst_string \notin TargetInstructions
             THEN SynError("Invalid or unsupported instruction", i)
             ELSE LET cur == IF inst_string = "push"
                             THEN Append(current_buf, 104)
                             ELSE current_buf
                  IN  ParseLoop(content, SkipComma(content, i + 2),
                                Append(Flush(components, cur),
                                       ComponentOf(inst_string,
                                                   content[i + 1].s)),
                                <<>>)

\* Patch::parse, of the tokens between the brackets
Parse(content) == ParseLoop(content, 1, <<>>, <<>>)

RECURSIVE PatchSize(_)
\* components.iter().map(PatchComponent::size).sum()
PatchSize(components) ==
    IF components = <<>> THEN 0
    ELSE size(Head(components)) + PatchSize(Tail(components))

RECURSIVE BufPieces(_)
\* [#(#buf_pieces)*]: the initial bytes of __buf
BufPieces(components) ==
    IF components = <<>> THEN <<>>
    ELSE buf_tokens(Head(components)) \o BufPieces(Tail(components))

RECURSIVE FieldsFromComponentStart(_, _)
\* every placeholder at the offset at which its component begins
FieldsFromComponentStart(components, offset) ==
    IF components = <<>> THEN <<>>
    ELSE LET component == Head(components)
             rest == FieldsFromComponentStart(Tail(components),
                                              offset + size(component))
         IN  IF component.kind = "Bytes" THEN rest
             ELSE <<[name |-> component.name,
                     offset |-> offset,
                     is_relative |-> component.kind = "Rel32"]>> \o rest

RECURSIVE FieldsFrom(_, _)
\* field_names, field_offsets and field_relativity, one record per
\* placeholder, in the order of the components; `offset` is the running sum
FieldsFrom(components, offset) ==
    IF components = <<>> THEN <<>>
    ELSE LET component == Head(components)
             rest == FieldsFrom(Tail(components), offset + size(component))
         IN  CASE component.kind = "Bytes" -> rest
               [] component.kind = "Rel32" ->
                      <<[name |-> component.name,
                         offset |-> offset + Len(component.bytes),
                         is_relative |-> TRUE]>> \o rest
               [] component.kind = "Imm32" ->
                      <<[name |-> component.name,
                         offset |-> offset,
                         is_relative |-> FALSE]>> \o rest

\* the generated struct: `__buf` and one field per placeholder.  A struct
\* that declares a field name twice does not compile (E0124).
DuplicateField(field_list) ==
    \E i, j \in 1 .. Len(field_list) :
        i < j /\ field_list[i].name = field_list[j].name

RustcError(msg) == [tag |-> "Err", msg |-> msg, at |-> 0]

\* the patch! macro applied to the template, and the compilation of what it
\* expands to
patch(content) ==
    LET parsed == Parse(content)
    IN  IF parsed.tag # "Ok" THEN parsed
        ELSE LET components == parsed.val
                 field_list == FieldsFrom(components, 0)
             IN  IF DuplicateField(field_list)
                 THEN RustcError("field is already declared")
                 ELSE Ok([patch_size |-> PatchSize(components),
                          buf |-> BufPieces(components),
                          fields |-> field_list])

---------------------------------------------------------------------------
(* hook86/src/patch.rs (and hook86_core/src/lib.rs): PatchPlaceholder *)

PTR_SIZE == 4

Some(v) == [tag |-> "Some", val |-> v]

\* PatchPlaceholder::new
PatchPlaceholder(offset, is_relative) ==
    [offset |-> offset, is_relative |-> is_relative, value |-> None]

IndexPanic ==
    [tag |-> "Panic", val |-> "range end index out of range for slice"]

\* the value bytes are added to the bytes of the field
WriteFieldAdding(b, offset, value_bytes) ==
    [i \in 1 .. Len(b) |->
        IF offset < i /\ i <= offset + PTR_SIZE
        THEN (b[i] + value_bytes[i - offset]) % 256
        ELSE b[i]]

\* buf[offset .. offset + PTR_SIZE].copy_from_slice(&value_bytes)
WriteField(b, offset, value_bytes) ==
    [i \in 1 .. Len(b) |->
        IF offset < i /\ i <= offset + PTR_SIZE
        THEN value_bytes[i - offset]
        ELSE b[i]]

set_value_no_ptr_size(placeholder, b, addr, value) ==
    LET rel == OverflowingSub(value, WrappingAdd(addr, OfNat(placeholder.offset)))
        value_bytes == IF placeholder.is_relative
                       THEN ToLeBytes(rel) ELSE ToLeBytes(value)
    IN  [tag |-> "Ok", buf |-> WriteField(b, placeholder.offset, value_bytes),
         placeholder |-> [placeholder EXCEPT !.value = Some(value)]]

\* PatchPlaceholder::set_value on the buffer `b`, which lies at `addr`:
\* the buffer and the placeholder afterwards, or the panic
set_value(placeholder, b, addr, value) ==
    LET with_offset == CheckedUsizeAdd(addr, OfNat(placeholder.offset))
        from_addr == IF with_offset.tag = "Panic" THEN Panic
                     ELSE CheckedUsizeAdd(with_offset.val, OfNat(PTR_SIZE))
    IN  IF placeholder.is_relative /\ from_addr.tag = "Panic"
        THEN Panic
        ELSE IF placeholder.offset + PTR_SIZE > Len(b)
        THEN IndexPanic
        ELSE LET value_bytes ==
                     IF placeholder.is_relative
                     THEN ToLeBytes(OverflowingSub(value, from_addr.val))
                     ELSE ToLeBytes(value)
             IN  [tag |-> "Ok",
                  buf |-> WriteField(b, placeholder.offset, value_bytes),
                  placeholder |-> [placeholder EXCEPT !.value = Some(value)]]

RECURSIVE SetValues(_, _, _, _, _)
\* #(self.#field_names.set_value(&mut self.__buf, #field_names);)* from
\* placeholder i on: the i-th value goes to the i-th placeholder
SetValues(phs, b, addr, values, i) ==
    IF i > Len(phs)
    THEN [tag |-> "Ok", buf |-> b, fields |-> phs]
    ELSE LET r == set_value(phs[i], b, addr, values[i])
         IN  IF r.tag # "Ok" THEN r
             ELSE SetValues([phs EXCEPT ![i] = r.placeholder], r.buf, addr,
                            values, i + 1)

---------------------------------------------------------------------------
(* Patches in use: a template is compiled by patch!; instances of the      *)
(* generated type are built with new and bound with bind.  A               *)
(* PatchPlaceholder can also be used on its own, with any buffer.          *)

MaxTokens == 4
MaxBufLen == 6

\* the tokens the templates are made of: 0x29, a comma and identifiers
\* (instructions, an unsupported instruction, target names)
Tokens ==
    {Lit(41), Comma, Ident("jz"), Ident("push"), Ident("imm32"),
     Ident("pushad"), Ident("nop"), Ident("equal"), Ident("other")}

RECURSIVE SeqsUpTo(_, _)
\* the sequences over S of length at most n
SeqsUpTo(S, n) ==
    IF n = 0 THEN {<<>>}
    ELSE LET shorter == SeqsUpTo(S, n - 1)
         IN  shorter \cup {Append(q, x) : q \in shorter, x \in S}

\* the template of the test of patch.rs, with the target names of the
\* specification
TestPatch ==
    <<Lit(41), Lit(216), Lit(56), Lit(244), Lit(4),
      Ident("jz"), Ident("equal"), Ident("jmp"), Ident("other"),
      Ident("push"), Ident("value")>>

Templates == SeqsUpTo(Tokens, MaxTokens) \cup {TestPatch}

\* 0, 1234, 0x80000000, 0x80000080, 0xFFFFFFFF
Values ==
    {Word(0, 0), Word(0, 1234), Word(32768, 0), Word(32768, 128),
     Word(65535, 65535)}

\* the values a patch is bound with: 1234, 0x80000080
BindValues == {Word(0, 1234), Word(32768, 128)}

\* where a buffer may lie: 0x00400000, 0x7FFFFFFC, 0xFFFFFFF9
BufAddrs == {Word(64, 0), Word(32767, 65532), Word(65535, 65529)}

\* an allocation does not wrap around the address space:
\* base + size <= usize::MAX
FitsAt(addr, len) == ~UnsignedAddOverflows(addr, OfNat(len))

\* where an instance of a patch type may lie: 0x00400000, 0xFFFFFFE0
InstanceAddrs == {Word(64, 0), Word(65535, 65504)}

\* the bytes of a buffer a placeholder is used with on its own
FreshBuf(len) == [i \in 1 .. len |-> 200 + i]

InitPatch ==
    /\ overflow_checks \in BOOLEAN
    /\ from = Zero /\ to = Zero /\ mem = ZeroMem
    /\ encoder = "none" /\ insn = None /\ patched = None /\ target = None
    /\ compiled = None
    /\ bound = None
    /\ protect_calls = 0
    /\ NoSearch
    /\ \/ /\ pc = "template"
          /\ template \in Templates
          /\ buf_addr = Zero
          /\ buf = <<>>
          /\ fields = <<>>
          /\ prot = "none"
       \/ /\ pc = "placeholder"
          /\ template = <<>>
          /\ buf_addr \in BufAddrs
          /\ \E len \in PTR_SIZE .. MaxBufLen :
                /\ FitsAt(buf_addr, len)
                /\ buf = FreshBuf(len)
          /\ \E offset \in 0 .. MaxBufLen, is_relative \in BOOLEAN :
                fields = <<PatchPlaceholder(offset, is_relative)>>
          /\ prot = "rw"

\* the compilation of the patch! invocation
Compile ==
    /\ pc = "template"
    /\ compiled' = patch(template)
    /\ pc' = IF compiled'.tag = "Ok" THEN "compiled" ELSE "rejected"
    /\ UNCHANGED <<overflow_checks, asmVars, template, buf_addr, buf, fields,
                   prot, bound, protect_calls, searchVars>>

\* new(): an instance of the generated type, in memory that is not
\* executable
New ==
    /\ pc = "compiled"
    /\ buf_addr' \in InstanceAddrs
    /\ FitsAt(buf_addr', compiled.val.patch_size)
    /\ buf' = compiled.val.buf
    /\ fields' = [i \in 1 .. Len(compiled.val.fields) |->
                    PatchPlaceholder(compiled.val.fields[i].offset,
                                     compiled.val.fields[i].is_relative)]
    /\ prot' = "rw"
    /\ pc' = "instance"
    /\ UNCHANGED <<overflow_checks, asmVars, template, compiled, bound,
                   protect_calls, searchVars>>

\* a refusal is handed on whatever it is
MapBufRawIgnoringError(result, addr) == Ok(addr)

\* unprotect(..).map(|_| self.buf_raw()): the address for Ok, the error as
\* it is
MapBufRaw(result, addr) ==
    IF result.tag = "Ok" THEN Ok(addr) ELSE result

\* bind(values): set every placeholder, then unprotect the buffer and
\* return its address
Bind ==
    /\ pc = "instance"
    /\ \E values \in [1 .. Len(fields) -> BindValues], granted \in BOOLEAN :
         LET r == SetValues(fields, buf, buf_addr, values, 1)
             u == unprotect(prot, granted)
         IN  IF r.tag # "Ok"
             THEN /\ bound' = r
                  /\ pc' = "panicked"
                  /\ protect_calls' = 0
                  /\ UNCHANGED <<buf, fields, prot>>
             ELSE /\ buf' = r.buf
                  /\ fields' = r.fields
                  /\ pc' = "instance"
                  /\ prot' = u.prot
                  /\ protect_calls' = u.calls
                  /\ bound' = MapBufRaw(u.result, buf_addr)
    /\ UNCHANGED <<overflow_checks, asmVars, template, compiled, buf_addr,
                   searchVars>>

\* set_value of a placeholder used on its own
SetValue ==
    /\ pc = "placeholder"
    /\ \E value \in Values :
         LET r == set_value(fields[1], buf, buf_addr, value)
         IN  IF r.tag # "Ok"
             THEN /\ bound' = r
                  /\ pc' = "panicked"
                  /\ UNCHANGED <<buf, fields>>
             ELSE /\ bound' = Ok(<<>>)
                  /\ buf' = r.buf
                  /\ fields' = <<r.placeholder>>
                  /\ pc' = "placeholder"
    /\ UNCHANGED <<overflow_checks, asmVars, template, compiled, buf_addr,
                   prot, protect_calls, searchVars>>

NextPatch ==
    \/ Compile
    \/ New
    \/ Bind
    \/ SetValue

SpecPatch == InitPatch /\ [][NextPatch]_vars

---------------------------------------------------------------------------
(* Claims about the template compiler and the placeholders, checked under  *)
(* SpecPatch                                                               *)

\* the template has been compiled (accepted or rejected)
Compiled == compiled # None

\* C8 (as claimed): the test template compiles to a 21-byte buffer with
\* `equal` relative at offset 7, `other` relative at offset 13 and `value`
\* absolute at offset 19, the byte before the `value` field being 0x68.
C8_TestPatchAsClaimed ==
    (template = TestPatch /\ Compiled) =>
        /\ compiled.tag = "Ok"
        /\ compiled.val.patch_size = 21
        /\ Len(compiled.val.buf) = 21
        /\ compiled.val.fields =
               <<[name |-> "equal", offset |-> 7, is_relative |-> TRUE],
                 [name |-> "other", offset |-> 13, is_relative |-> TRUE],
                 [name |-> "value", offset |-> 19, is_relative |-> FALSE]>>
        /\ compiled.val.buf[19] = 104

\* C8 (amended): the test template compiles to a 21-byte buffer (5 literal
\* bytes, jz 6, jmp 5, push 5) with `equal` relative at offset 7, `other`
\* relative at offset 12 and `value` absolute at offset 17, the byte before
\* the `value` field (offset 16) being 0x68 and every field zero.
C8_TestPatchLayout ==
    (template = TestPatch /\ Compiled) =>
        /\ compiled.tag = "Ok"
        /\ compiled.val.patch_size = 21
        /\ compiled.val.buf =
               <<41, 216, 56, 244, 4, 15, 132, 0, 0, 0, 0, 233, 0, 0, 0, 0,
                 104, 0, 0, 0, 0>>
        /\ compiled.val.fields =
               <<[name |-> "equal", offset |-> 7, is_relative |-> TRUE],
                 [name |-> "other", offset |-> 12, is_relative |-> TRUE],
                 [name |-> "value", offset |-> 17, is_relative |-> FALSE]>>

\* C8 witness: the test template has been compiled and accepted
C8_Witness ==
    template = TestPatch /\ pc = "compiled" /\ compiled.tag = "Ok"

RECURSIVE UnknownMnemonicFrom(_, _)
\* the index of the first identifier of the template, from token i on, that
\* stands where an instruction is expected and is not in the table of
\* section 4.3; 0 if there is none.  Bytes, commas and zero-operand
\* instructions are one token, `mnemonic target` is two.
UnknownMnemonicFrom(content, i) ==
    IF i > Len(content) THEN 0
    ELSE IF content[i].k # "ident" THEN UnknownMnemonicFrom(content, i + 1)
    ELSE IF content[i].s \in DOMAIN ByteInstructions
         THEN UnknownMnemonicFrom(content, i + 1)
    ELSE IF content[i].s \in TargetInstructions
         THEN UnknownMnemonicFrom(content, i + 2)
    ELSE i

UnknownMnemonic(content) == UnknownMnemonicFrom(content, 1)

RECURSIVE DeclaredFrom(_, _)
\* the placeholder names the template declares from token i on, in order
DeclaredFrom(content, i) ==
    IF i > Len(content) THEN <<>>
    ELSE IF content[i].k = "ident" /\ content[i].s \in TargetInstructions
    THEN (IF i + 1 <= Len(content) /\ content[i + 1].k = "ident"
          THEN <<content[i + 1].s>> ELSE <<>>)
         \o DeclaredFrom(content, i + 2)
    ELSE DeclaredFrom(content, i + 1)

\* the template declares some placeholder name twice
DeclaresTwice(content) ==
    LET names == DeclaredFrom(content, 1)
    IN  \E i, j \in 1 .. Len(names) : i < j /\ names[i] = names[j]

\* C9 (as claimed): a template that declares a placeholder name twice or
\* uses a mnemonic outside the table never yields a patch type; and when an
\* unknown mnemonic is the template's first defect, the error names that
\* mnemonic token.
C9_MalformedRejected ==
    Compiled =>
        /\ (DeclaresTwice(template) \/ UnknownMnemonic(template) # 0)
               => compiled.tag = "Err"
        /\ (/\ UnknownMnemonic(template) # 0
            /\ Parse(SubSeq(template, 1, UnknownMnemonic(template) - 1)).tag
                   = "Ok")
               => /\ compiled.tag = "Err"
                  /\ compiled.at = UnknownMnemonic(template)

\* The part of C9 the code keeps: such a template never yields a patch
\* type, so no instance of one is ever built.
C9_NeverAccepted ==
    (DeclaresTwice(template) \/ UnknownMnemonic(template) # 0) =>
        /\ Compiled => compiled.tag = "Err"
        /\ pc \notin {"compiled", "instance"}

\* the placeholder is used on its own (no template)
Standalone == template = <<>> /\ Len(fields) = 1

\* the bytes of the field whose first byte is at `offset`
FieldBytes(b, offset) == SubSeq(b, offset + 1, offset + PTR_SIZE)

\* what a field of a buffer at buf_addr must hold, as a 32-bit value, after
\* its placeholder was set to `value`
ExpectedField(placeholder, value) ==
    IF placeholder.is_relative
    THEN OverflowingSub(value,
             WrappingAdd(buf_addr, OfNat(placeholder.offset + 4)))
    ELSE value

\* C10: set_value on a placeholder whose field lies in the buffer never
\* fails; the field then holds, little-endian, the value (absolute) or
\* (value - (B + offset + 4)) mod 2^32 (relative); a placeholder used on its
\* own leaves every other byte of the buffer as it was; and binding
\* value = 1234 in the test patch leaves 68 D2 04 00 00 at the tail.
C10_SetValue ==
    /\ \A i \in 1 .. Len(fields) :
         fields[i].offset + 4 <= Len(buf) =>
            /\ bound.tag # "Panic"
            /\ fields[i].value # None =>
                  ReadUnaligned32(FieldBytes(buf, fields[i].offset))
                      = ExpectedField(fields[i], fields[i].value.val)
    /\ (Standalone /\ fields[1].offset + 4 <= Len(buf)) =>
          \A j \in 1 .. Len(buf) :
             (j <= fields[1].offset \/ j > fields[1].offset + 4) =>
                buf[j] = FreshBuf(Len(buf))[j]
    /\ (template = TestPatch /\ Len(fields) = 3
            /\ fields[3].value = Some(Word(0, 1234))) =>
          SubSeq(buf, 17, 21) = <<104, 210, 4, 0, 0>>

\* C10 witness: a relative placeholder at offset 2 of a buffer at 0xFFFFFFF9
\* has been set to 0: the displacement 0 - 0xFFFFFFFF wraps to 1
C10_Witness ==
    /\ Standalone
    /\ pc = "placeholder"
    /\ buf_addr = Word(65535, 65529)
    /\ fields[1].is_relative
    /\ fields[1].offset = 2
    /\ fields[1].value = Some(Zero)
    /\ FieldBytes(buf, 2) = <<1, 0, 0, 0>>

\* a step in which new() built the instance
NewReturned == pc = "compiled" /\ pc' = "instance"

\* a step in which bind returned (it did not panic)
BindReturned == pc = "instance" /\ pc' = "instance"

\* every field of the buffer holds the value of `values` for its placeholder
FieldsHold(b, phs, values) ==
    \A i \in 1 .. Len(phs) :
        /\ phs[i].value = Some(values[i])
        /\ ReadUnaligned32(FieldBytes(b, phs[i].offset))
               = ExpectedField(phs[i], values[i])

\* C11: over new followed by any number of binds of a patch instance: the
\* buffer is not executable after new; it becomes executable only in a bind
\* whose (single) protection request was granted; a bind that returns,
\* returns either the buffer's address, the buffer then being executable and
\* every field holding the value that call was given, or, the request having
\* been refused, the error and no address, after exactly one request and
\* with the protection as it was.
C11_BindLifecycle ==
    [][/\ NewReturned => prot' # "rwx"
       /\ (prot # "rwx" /\ prot' = "rwx") =>
              /\ BindReturned
              /\ bound' = Ok(buf_addr)
              /\ protect_calls' = 1
       /\ BindReturned =>
              \/ /\ bound' = Ok(buf_addr)
                 /\ prot' = "rwx"
                 /\ protect_calls' = 1
                 /\ \E values \in [1 .. Len(fields) -> BindValues] :
                        FieldsHold(buf', fields', values)
              \/ /\ bound' = Win32Error
                 /\ prot' = prot
                 /\ protect_calls' = 1
      ]_vars

\* C11 witness: a bind of a patch with a placeholder was refused the
\* protection change before any bind was granted it: bind returned the
\* error, the fields are written and the buffer is still not executable
C11_Witness ==
    /\ pc = "instance"
    /\ Len(fields) > 0
    /\ bound = Win32Error
    /\ prot = "rw"
    /\ protect_calls = 1
    /\ \A i \in 1 .. Len(fields) : fields[i].value # None

\* the opcode-prefix bytes of the mnemonics that take a target, as the
\* specification lists them (section 4.3)
OpcodePrefix ==
    [imm32 |-> <<>>, rel32 |-> <<>>, push |-> <<104>>, call |-> <<232>>,
     jmp |-> <<233>>, jz |-> <<15, 132>>, je |-> <<15, 132>>,
     jl |-> <<15, 140>>, jnge |-> <<15, 140>>, jge |-> <<15, 141>>,
     jnl |-> <<15, 141>>]

\* the byte of the zero-operand instructions, as the specification lists
\* them
ZeroOperand == [pushad |-> 96, popad |-> 97, ret |-> 195, retn |-> 195]

RECURSIVE MnemonicsFrom(_, _)
\* the mnemonics of the placeholders the template declares from token i on
MnemonicsFrom(content, i) ==
    IF i > Len(content) THEN <<>>
    ELSE IF content[i].k = "ident" /\ content[i].s \in DOMAIN OpcodePrefix
    THEN <<content[i].s>> \o MnemonicsFrom(content, i + 2)
    ELSE MnemonicsFrom(content, i + 1)

RECURSIVE LiteralsFrom(_, _)
\* the literal bytes the template stands for from token i on: its byte
\* literals, its zero-operand instructions and the opcode prefixes of its
\* mnemonics
LiteralsFrom(content, i) ==
    IF i > Len(content) THEN <<>>
    ELSE IF content[i].k = "lit"
    THEN <<content[i].n>> \o LiteralsFrom(content, i + 1)
    ELSE IF content[i].k = "ident" /\ content[i].s \in DOMAIN ZeroOperand
    THEN <<ZeroOperand[content[i].s]>> \o LiteralsFrom(content, i + 1)
    ELSE IF content[i].k = "ident" /\ content[i].s \in DOMAIN OpcodePrefix
    THEN OpcodePrefix[content[i].s] \o LiteralsFrom(content, i + 2)
    ELSE LiteralsFrom(content, i + 1)

\* byte j (from 1) of the buffer belongs to the field of some placeholder
InField(phs, j) ==
    \E i \in 1 .. Len(phs) :
        phs[i].offset < j /\ j <= phs[i].offset + PTR_SIZE

RECURSIVE OutsideFields(_, _, _)
\* the bytes of b from byte j on that belong to no field, in their order
OutsideFields(b, phs, j) ==
    IF j > Len(b) THEN <<>>
    ELSE (IF InField(phs, j) THEN <<>> ELSE <<b[j]>>)
             \o OutsideFields(b, phs, j + 1)

\* C19: for every accepted template: the buffer's length is the declared
\* length and the sum of the lengths of the template's elements (one byte
\* per literal byte, four per placeholder); every placeholder has
\* offset + 4 <= length, its four bytes are zero and the bytes just before
\* them are its mnemonic's opcode prefix; fields of distinct placeholders do
\* not overlap; and the bytes outside the fields are the template's literal
\* bytes, so no field overlaps one.
C19_CompiledLayout ==
    (Compiled /\ compiled.tag = "Ok") =>
        LET b == compiled.val.buf
            phs == compiled.val.fields
            mnemonics == MnemonicsFrom(template, 1)
            literals == LiteralsFrom(template, 1)
        IN  /\ Len(b) = compiled.val.patch_size
            /\ Len(b) = Len(literals) + PTR_SIZE * Len(mnemonics)
            /\ Len(phs) = Len(mnemonics)
            /\ \A i \in 1 .. Len(phs) :
                  LET prefix == OpcodePrefix[mnemonics[i]]
                  IN  /\ phs[i].offset + 4 <= Len(b)
                      /\ FieldBytes(b, phs[i].offset) = <<0, 0, 0, 0>>
                      /\ phs[i].offset >= Len(prefix)
                      /\ SubSeq(b, phs[i].offset - Len(prefix) + 1,
                                phs[i].offset) = prefix
            /\ \A i, j \in 1 .. Len(phs) :
                  i < j => phs[i].offset + 4 <= phs[j].offset
            /\ OutsideFields(b, phs, 1) = literals

\* C19 witness: the template `jz equal push other` has been accepted: two
\* placeholders, the first behind the two bytes of jz
C19_Witness ==
    /\ template = <<Ident("jz"), Ident("equal"), Ident("push"), Ident("other")>>
    /\ pc = "compiled"
    /\ compiled.tag = "Ok"
    /\ Len(compiled.val.fields) = 2
    /\ compiled.val.fields[1].offset = 2

\* the buffer of a new instance at buf_addr after a single bind of the
\* values the placeholders `phs` were last set to
BoundOnce(phs) ==
    SetValues([i \in 1 .. Len(phs) |->
                  PatchPlaceholder(phs[i].offset, phs[i].is_relative)],
              compiled.val.buf, buf_addr,
              [i \in 1 .. Len(phs) |-> phs[i].value.val], 1)

\* C20: whatever binds came before, a bind that returns leaves the buffer
\* as a single bind of its values on a new instance would: the bytes
\* outside the fields are those of the template, and a bind of the values
\* of the bind before it does not change a byte.
C20_RebindOverwrites ==
    [][BindReturned =>
          /\ BoundOnce(fields').tag = "Ok"
          /\ buf' = BoundOnce(fields').buf
          /\ \A j \in 1 .. Len(buf') :
                ~InField(fields', j) => buf'[j] = compiled.val.buf[j]
          /\ (\A i \in 1 .. Len(fields) : fields'[i].value = fields[i].value)
                => buf' = buf
      ]_vars

\* C20 witness: an instance with a placeholder was bound and made
\* executable, then bound again with 1234 for its first placeholder, that
\* bind being refused the protection change
C20_Witness ==
    /\ pc = "instance"
    /\ Len(fields) > 0
    /\ prot = "rwx"
    /\ bound = Win32Error
    /\ fields[1].value = Some(Word(0, 1234))

---------------------------------------------------------------------------
(* hook86/src/mem.rs: ByteSearcher.  The searched process's address space  *)
(* is kept small: pages of PageSize bytes, the first one the null page,    *)
(* and above the last page the addresses the region query refuses.  No     *)
(* address arithmetic of the searcher comes near 2^32 there, so these      *)
(* addresses are plain naturals; PageSize stands for 0x1000 and UsizeMax   *)
(* for usize::MAX.                                                         *)

PageSize == 2
Pages == 0 .. 3
UserTop == Cardinality(Pages) * PageSize
UsizeMax == 4 * UserTop - 1
Addresses == 0 .. UserTop - 1

READABLE_PROTECTION ==
    {"PAGE_EXECUTE_READ", "PAGE_READONLY", "PAGE_READWRITE", "PAGE_WRITECOPY",
     "PAGE_EXECUTE_WRITECOPY", "PAGE_EXECUTE_READWRITE"}

\* PAGE_PROTECTION_FLAGS::contains: every bit of `other` is set in `flags`
contains(flags, other) == other \subseteq flags

\* what a page is: free (no protection reported), or committed with a
\* protection
Free == [State |-> "MEM_FREE", Protect |-> {}]
Committed(protect) == [State |-> "MEM_COMMIT", Protect |-> protect]

\* the last page of the run of pages with the attributes of page p
RunEnd(layout, p) ==
    CHOOSE q \in Pages :
        /\ q >= p
        /\ \A r \in p .. q : layout[r] = layout[p]
        /\ (q + 1 \in Pages => layout[q + 1] # layout[p])

\* VirtualQuery(Some(a), &mut memory_info, ..): 0 above the addresses of the
\* process; otherwise the region of pages that begins at the page of `a`
\* and shares its attributes
VirtualQuery(layout, a) ==
    IF a >= UserTop
    THEN [result |-> 0, BaseAddress |-> 0, RegionSize |-> 0,
          State |-> "MEM_FREE", Protect |-> {}]
    ELSE LET p == a \div PageSize
         IN  [result |-> 1,
              BaseAddress |-> p * PageSize,
              RegionSize |-> (RunEnd(layout, p) - p + 1) * PageSize,
              State |-> layout[p].State,
              Protect |-> layout[p].Protect]

\* a read of address a succeeds: it does not raise an access violation
Readable(layout, a) ==
    /\ a < UserTop
    /\ layout[a \div PageSize].State = "MEM_COMMIT"
    /\ layout[a \div PageSize].Protect \cap READABLE_PROTECTION # {}
    /\ "PAGE_GUARD" \notin layout[a \div PageSize].Protect

\* the bytes a slice from_raw_parts(base, len) gives up to its first
\* unreadable byte
ReadablePrefix(layout, img, base, len) ==
    LET n == CHOOSE k \in 0 .. len :
                 /\ \A j \in 0 .. k - 1 : Readable(layout, base + j)
                 /\ (k < len => ~Readable(layout, base + k))
    IN  [j \in 1 .. n |-> img[base + j - 1]]

\* memmem::find(haystack, needle): the lowest offset at which the needle
\* occurs in the haystack
memmem_find(haystack, needle) ==
    LET hits == {o \in 0 .. Len(haystack) - Len(needle) :
                    \A k \in 1 .. Len(needle) : haystack[o + k] = needle[k]}
    IN  IF hits = {} THEN None
        ELSE Some(CHOOSE o \in hits : \A h \in hits : o <= h)

\* Option::unwrap_or
unwrap_or(option, default) ==
    IF option = None THEN default ELSE option.val

\* the pointer behind the region stays where it is
add_nothing(ptr, count) == ptr

\* <*const c_void>::add(count), line 89: the pointer `count` bytes further.
\* A region lies below UserTop, so the sum does not leave the address space.
add(ptr, count) == ptr + count

\* search_in_ranges, line 91: the region is handed to search_func
Searched(memory_info, filter) ==
    ~(memory_info.State # "MEM_COMMIT"
        \/ ~contains(filter, memory_info.Protect))

\* a module name is a sequence of characters; char::to_lowercase on the
\* letters the names are made of
Lowercase == [A |-> "a", D |-> "d", G |-> "g", L |-> "l"]

\* str::to_lowercase
to_lowercase(name) ==
    [i \in 1 .. Len(name) |->
        IF name[i] \in DOMAIN Lowercase THEN Lowercase[name[i]] ELSE name[i]]

\* HashMap::insert: the value of an existing key is replaced
Insert(map, key, value) ==
    [k \in DOMAIN map \cup {key} |-> IF k = key THEN value ELSE map[k]]

MODULES_LEN == 1024
MAX_PATH == 260

Min(a, b) == IF a <= b THEN a ELSE b

RECURSIVE DiscoverFrom(_, _, _, _)
\* the loop of discover_modules over &modules[..num_modules], from module i
\* on: a module whose base name is not obtained (no characters, a name that
\* fills the buffer, a name that is not UTF-16) is passed over with
\* `continue`; GetModuleInformation's error is returned with `?`
DiscoverFrom(os_modules, num_modules, i, map) ==
    IF i > num_modules
    THEN [result |-> Ok(<<>>), modules |-> map]
    ELSE LET module == os_modules[i]
             num_chars == module.name.num_chars
         IN  IF num_chars = 0 \/ num_chars >= MAX_PATH
             THEN DiscoverFrom(os_modules, num_modules, i + 1, map)
             ELSE IF ~module.name.utf16
             THEN DiscoverFrom(os_modules, num_modules, i + 1, map)
             ELSE IF module.info = None
             THEN [result |-> [tag |-> "Err", val |-> "GetModuleInformation"],
                   modules |-> map]
             ELSE LET module_name == to_lowercase(module.name.chars)
                      base == module.info.val[1]
                      SizeOfImage == module.info.val[2]
                  IN  DiscoverFrom(os_modules, num_modules, i + 1,
                          Insert(map, module_name,
                                 <<base, base + SizeOfImage>>))

\* discover_modules(): the map is cleared first; EnumProcessModules's error
\* is returned with `?`.  The result and the map afterwards.
discover_modules(os) ==
    IF ~os.enumerated
    THEN [result |-> [tag |-> "Err", val |-> "EnumProcessModules"],
          modules |-> <<>>]
    ELSE DiscoverFrom(os.modules, Min(Len(os.modules), MODULES_LEN), 1, <<>>)

RECURSIVE get_module_ranges_exact_case(_, _)
\* the requested names are looked up as they are written
get_module_ranges_exact_case(map, names) ==
    IF names = <<>> THEN <<>>
    ELSE (IF Head(names) \in DOMAIN map THEN <<map[Head(names)]>> ELSE <<>>)
             \o get_module_ranges_exact_case(map, Tail(names))

RECURSIVE get_module_ranges(_, _)
\* get_module_ranges: filter_map over the requested names, in their order,
\* of self.modules.get(&module_name.to_lowercase())
get_module_ranges(map, names) ==
    IF names = <<>> THEN <<>>
    ELSE LET key == to_lowercase(Head(names))
         IN  (IF key \in DOMAIN map THEN <<map[key]>> ELSE <<>>)
                 \o get_module_ranges(map, Tail(names))

\* find_bytes_anywhere, find_addresses: (0x1000, usize::MAX)
Anywhere == <<<<PageSize, UsizeMax>>>>

\* find_bytes, find_addresses: the ranges of the named modules if M > 0,
\* else everything from 0x1000 on
ScopeOf(map, names) ==
    IF Len(names) > 0 THEN get_module_ranges(map, names) ELSE Anywhere

\* find_bytes_in_ranges's closure on the slice at search_base of region_size
\* bytes, whose bytes are `search_region`: each pattern not found yet is
\* looked for; the addresses afterwards
find_bytes_closure(patterns, search_base, search_region, addresses) ==
    [i \in 1 .. Len(patterns) |->
        IF addresses[i] # None THEN addresses[i]
        ELSE LET offset == memmem_find(search_region, patterns[i])
             IN  IF offset # None THEN Some(search_base + offset.val)
                 ELSE addresses[i]]

\* find_addresses_in_ranges's closure: each address not found yet is
\* compared with start = search_base and end = start + region_size
find_addresses_closure(addresses, search_base, region_size, flags) ==
    [i \in 1 .. Len(addresses) |->
        IF flags[i] THEN flags[i]
        ELSE LET start == search_base
                 end == start + region_size
             IN  addresses[i] >= start /\ addresses[i] < end]

\* addresses.iter().all(Option::is_some)
all_is_some(addresses) == \A i \in 1 .. Len(addresses) : addresses[i] # None

\* flags.iter().all(|&f| f)
all_true(flags) == \A i \in 1 .. Len(flags) : flags[i]

---------------------------------------------------------------------------
(* The searcher in use: a process with some layout of pages and some       *)
(* loaded modules; the caller may discover the modules, then calls one of  *)
(* the search functions, whose region walk proceeds query by query.        *)

MaxPatterns == 2

\* the attributes of the pages above the null page
PageKinds ==
    {Free, Committed({"PAGE_READWRITE"}), Committed({"PAGE_EXECUTE_READ"}),
     Committed({"PAGE_READWRITE", "PAGE_GUARD"})}

Layouts == {layout \in [Pages -> PageKinds] : layout[0] = Free}

\* the memory of the process: ABAB ABAB, so that AB lies inside every page
\* and BA across every page boundary
Images == {[a \in Addresses |-> 65 + (a % 2)]}

\* the patterns searched for: AB, BA
Patterns == {<<65, 66>>, <<66, 65>>}

\* the addresses searched for: one inside every explicit range, one at the
\* end of the explicit ranges
SearchedAddresses == {4, 6}

\* the protection argument: none, the one of find_addresses_write, the one
\* of find_addresses_exec
WriteProtection == {"PAGE_READWRITE", "PAGE_WRITECOPY"}
ExecProtection == {"PAGE_EXECUTE_READ", "PAGE_EXECUTE_READWRITE"}
Protections == {None, Some(WriteProtection), Some(ExecProtection)}

\* the ranges a caller of the *_in_ranges functions passes: none; one that
\* begins and ends inside pages; two, the higher one first
ExplicitRanges ==
    {<<>>, <<<<3, 6>>>>, <<<<4, 6>>, <<2, 4>>>>}

\* the modules of the process: Ga at page 1, dL at pages 2 and 3
ModuleName(chars) ==
    [num_chars |-> Len(chars), chars |-> chars, utf16 |-> TRUE]

HealthyModules ==
    <<[name |-> ModuleName(<<"G", "a">>), info |-> Some(<<2, 2>>)],
      [name |-> ModuleName(<<"d", "L">>), info |-> Some(<<4, 4>>)]>>

\* what the module services report: everything; or EnumProcessModules
\* fails; or one module's GetModuleBaseNameW returns no characters or a name
\* that is not UTF-16; or one module's GetModuleInformation fails
ModuleReports ==
    {[enumerated |-> TRUE, modules |-> HealthyModules],
     [enumerated |-> FALSE, modules |-> HealthyModules]}
    \cup {[enumerated |-> TRUE,
           modules |-> [HealthyModules EXCEPT ![i].name.num_chars = 0]] :
              i \in 1 .. Len(HealthyModules)}
    \cup {[enumerated |-> TRUE,
           modules |-> [HealthyModules EXCEPT ![i].name.utf16 = FALSE]] :
              i \in 1 .. Len(HealthyModules)}
    \cup {[enumerated |-> TRUE,
           modules |-> [HealthyModules EXCEPT ![i].info = None]] :
              i \in 1 .. Len(HealthyModules)}

\* the module names a caller asks for
ModuleLists ==
    {<<>>, <<<<"g", "A">>>>, <<<<"D", "l">>, <<"g", "a">>>>, <<<<"x">>>>}

\* a layout with a writable page, a free page and an executable page
PlainLayout ==
    [p \in Pages |->
        IF p = 1 THEN Committed({"PAGE_READWRITE"})
        ELSE IF p = 3 THEN Committed({"PAGE_EXECUTE_READ"})
        ELSE Free]

InitSearch ==
    /\ overflow_checks \in BOOLEAN
    /\ from = Zero /\ to = Zero /\ mem = ZeroMem
    /\ encoder = "none" /\ insn = None /\ patched = None /\ target = None
    /\ NoPatch
    /\ pc = "idle"
    /\ image \in Images
    /\ \/ /\ pages \in Layouts
          /\ loaded = [enumerated |-> TRUE, modules |-> HealthyModules]
       \/ /\ pages = PlainLayout
          /\ loaded \in ModuleReports
    /\ modules = <<>>
    /\ discovered = None
    /\ func = "none"
    /\ needles = <<>>
    /\ protection = None
    /\ module_names = <<>>
    /\ ranges = <<>>
    /\ range_i = 0
    /\ walk_addr = 0
    /\ results = <<>>
    /\ queried = <<>>
    /\ scanned = <<>>

\* searcher.discover_modules()
DiscoverModules ==
    /\ pc = "idle"
    /\ LET r == discover_modules(loaded)
       IN  /\ modules' = r.modules
           /\ discovered' = r.result
    /\ UNCHANGED <<overflow_checks, asmVars, patchVars, envVars, callVars,
                   walkVars, pc>>

ByteSearches ==
    {"find_bytes_in_ranges", "find_bytes_anywhere", "find_bytes"}

\* the functions that take no searcher (no &self)
AssociatedFunctions ==
    {"find_bytes_in_ranges", "find_bytes_anywhere",
     "find_addresses_in_ranges"}

\* search_in_ranges up to the first range: results = [Default::default(); N].
\* The functions that take no searcher are called before any discovery.
Search(f, array, prot_arg, names, rs) ==
    /\ pc = "idle"
    /\ f \in AssociatedFunctions => discovered = None
    /\ func' = f
    /\ needles' = array
    /\ protection' = prot_arg
    /\ module_names' = names
    /\ ranges' = rs
    /\ range_i' = 1
    /\ walk_addr' = IF Len(rs) > 0 THEN rs[1][1] ELSE 0
    /\ results' = [i \in 1 .. Len(array) |->
                     IF f \in ByteSearches THEN None ELSE FALSE]
    /\ queried' = <<>>
    /\ scanned' = <<>>
    /\ pc' = "walk"
    /\ UNCHANGED <<overflow_checks, asmVars, patchVars, envVars, modules,
                   discovered>>

PatternLists == SeqsUpTo(Patterns, MaxPatterns)
AddressLists == SeqsUpTo(SearchedAddresses, MaxPatterns)

FindBytesInRanges ==
    \E patterns \in PatternLists, prot_arg \in Protections,
       rs \in ExplicitRanges :
        Search("find_bytes_in_ranges", patterns, prot_arg, <<>>, rs)

FindBytesAnywhere ==
    \E patterns \in PatternLists, prot_arg \in Protections :
        Search("find_bytes_anywhere", patterns, prot_arg, <<>>, Anywhere)

FindBytes ==
    \E patterns \in PatternLists, prot_arg \in Protections,
       names \in ModuleLists :
        Search("find_bytes", patterns, prot_arg, names,
               ScopeOf(modules, names))

FindAddressesInRanges ==
    \E addresses \in AddressLists, prot_arg \in Protections,
       rs \in ExplicitRanges :
        Search("find_addresses_in_ranges", addresses, prot_arg, <<>>, rs)

FindAddresses ==
    \E addresses \in AddressLists, prot_arg \in Protections,
       names \in ModuleLists :
        Search("find_addresses", addresses, prot_arg, names,
               ScopeOf(modules, names))

FindAddressesWrite ==
    \E addresses \in AddressLists, names \in ModuleLists :
        Search("find_addresses_write", addresses, Some(WriteProtection),
               names, ScopeOf(modules, names))

FindAddressesExec ==
    \E addresses \in AddressLists, names \in ModuleLists :
        Search("find_addresses_exec", addresses, Some(ExecProtection),
               names, ScopeOf(modules, names))

\* the walk leaves range range_i (the `while` ends, or `break`)
LeaveRange ==
    /\ range_i' = range_i + 1
    /\ walk_addr' = IF range_i + 1 <= Len(ranges)
                    THEN ranges[range_i + 1][1] ELSE walk_addr

InRange == range_i <= Len(ranges) /\ walk_addr < ranges[range_i][2]

\* line 102: the ranges are exhausted, the results are returned
ReturnResults ==
    /\ pc = "walk"
    /\ range_i > Len(ranges)
    /\ pc' = "done"
    /\ UNCHANGED <<overflow_checks, asmVars, patchVars, envVars, modules,
                   discovered, callVars, walkVars>>

\* line 79: addr has reached the end of the range
RangeWalked ==
    /\ pc = "walk"
    /\ range_i <= Len(ranges)
    /\ ~(walk_addr < ranges[range_i][2])
    /\ LeaveRange
    /\ UNCHANGED <<overflow_checks, asmVars, patchVars, envVars, modules,
                   discovered, callVars, results, queried, scanned, pc>>

\* lines 81-86: VirtualQuery returns 0, the walk of the range is broken off
QueryFails ==
    /\ pc = "walk"
    /\ InRange
    /\ VirtualQuery(pages, walk_addr).result = 0
    /\ queried' = Append(queried, walk_addr)
    /\ LeaveRange
    /\ UNCHANGED <<overflow_checks, asmVars, patchVars, envVars, modules,
                   discovered, callVars, results, scanned, pc>>

\* lines 88-93: the region is not committed or its protection is not in the
\* filter; the walk goes on behind it
SkipRegion ==
    /\ pc = "walk"
    /\ InRange
    /\ LET memory_info == VirtualQuery(pages, walk_addr)
       IN  /\ memory_info.result # 0
           /\ ~Searched(memory_info,
                        unwrap_or(protection, READABLE_PROTECTION))
           /\ walk_addr' =
                  add(memory_info.BaseAddress, memory_info.RegionSize)
    /\ queried' = Append(queried, walk_addr)
    /\ UNCHANGED <<overflow_checks, asmVars, patchVars, envVars, modules,
                   discovered, callVars, range_i, results, scanned, pc>>

\* the walk goes on whatever the search function returns
AfterSearchGoOn(found) == "walk"

\* lines 95-98: if search_func returns true the results are returned, else
\* the walk goes on
AfterSearch(found) == IF found THEN "done" ELSE "walk"

\* lines 88-98: the region is handed to the search function, as the slice of
\* RegionSize bytes at addr; the results are returned if everything is
\* found.  addr is moved behind the region (line 89) before the search
\* function is called.  A pattern search reads the slice: where the slice has
\* bytes that cannot be read, the search either finds each pattern before
\* them or raises an access violation.
ScanRegion ==
    /\ pc = "walk"
    /\ InRange
    /\ LET memory_info == VirtualQuery(pages, walk_addr)
           search_base == walk_addr
           region_size == memory_info.RegionSize
           search_region ==
               ReadablePrefix(pages, image, search_base, region_size)
           reads == {i \in 1 .. Len(needles) :
                        results[i] = None /\ Len(needles[i]) <= region_size}
           after == IF func \in ByteSearches
                    THEN find_bytes_closure(needles, search_base,
                                            search_region, results)
                    ELSE find_addresses_closure(needles, search_base,
                                                region_size, results)
           found == IF func \in ByteSearches
                    THEN all_is_some(after) ELSE all_true(after)
       IN  /\ memory_info.result # 0
           /\ Searched(memory_info,
                       unwrap_or(protection, READABLE_PROTECTION))
           /\ queried' = Append(queried, walk_addr)
           /\ scanned' = Append(scanned,
                                [search_base |-> search_base,
                                 region_size |-> region_size,
                                 BaseAddress |-> memory_info.BaseAddress,
                                 start |-> ranges[range_i][1],
                                 end |-> ranges[range_i][2]])
           /\ walk_addr' =
                  add(memory_info.BaseAddress, memory_info.RegionSize)
           /\ \/ /\ func \in ByteSearches
                 /\ Len(search_region) < region_size
                 /\ reads # {}
                 /\ pc' = "crashed"
                 /\ UNCHANGED results
              \/ /\ func \in ByteSearches =>
                       \/ Len(search_region) = region_size
                       \/ \A i \in reads : after[i] # None
                 /\ results' = after
                 /\ pc' = AfterSearch(found)
    /\ UNCHANGED <<overflow_checks, asmVars, patchVars, envVars, modules,
                   discovered, callVars, range_i>>

NextSearch ==
    \/ DiscoverModules
    \/ FindBytesInRanges
    \/ FindBytesAnywhere
    \/ FindBytes
    \/ FindAddressesInRanges
    \/ FindAddresses
    \/ FindAddressesWrite
    \/ FindAddressesExec
    \/ ReturnResults
    \/ RangeWalked
    \/ QueryFails
    \/ SkipRegion
    \/ ScanRegion

SpecSearch == InitSearch /\ [][NextSearch]_vars

---------------------------------------------------------------------------
(* Claims about the searcher, checked under SpecSearch                     *)

RECURSIVE RegionsFrom(_, _, _)
\* the regions the region query reports when a range is traversed from
\* address a to `end`: each region's [base, base + size) and attributes
RegionsFrom(layout, a, end) ==
    IF a >= end \/ a >= UserTop THEN {}
    ELSE LET r == VirtualQuery(layout, a)
         IN  {r} \cup RegionsFrom(layout, r.BaseAddress + r.RegionSize, end)

\* the regions of a search scope
RegionsOf(layout, scope) ==
    UNION {RegionsFrom(layout, scope[i][1], scope[i][2]) :
              i \in 1 .. Len(scope)}

\* the protections a protection argument stands for
FilterOf(prot_arg) ==
    IF prot_arg = None THEN READABLE_PROTECTION ELSE prot_arg.val

\* the region is committed and its protection is one of the filter's
Qualifying(r, prot_arg) ==
    /\ r.State = "MEM_COMMIT"
    /\ \E flag \in FilterOf(prot_arg) : r.Protect = {flag}

QualifyingRegions(layout, scope, prot_arg) ==
    {r \in RegionsOf(layout, scope) : Qualifying(r, prot_arg)}

\* address a lies in region r
InRegion(a, r) == r.BaseAddress <= a /\ a < r.BaseAddress + r.RegionSize

\* the pattern occurs at address a, all of it inside region r
MatchAt(img, pattern, a, r) ==
    /\ InRegion(a, r)
    /\ a + Len(pattern) <= r.BaseAddress + r.RegionSize
    /\ \A k \in 1 .. Len(pattern) : img[a + k - 1] = pattern[k]

\* the match with the lowest address inside the first (lowest) qualifying
\* region that contains one
FirstMatch(layout, img, scope, prot_arg, pattern) ==
    LET matches == {a \in Addresses :
                       \E r \in QualifyingRegions(layout, scope, prot_arg) :
                           MatchAt(img, pattern, a, r)}
    IN  IF matches = {} THEN None
        ELSE Some(CHOOSE a \in matches : \A m \in matches : a <= m)

\* a pattern search has returned
BytesReturned == pc = "done" /\ func \in ByteSearches

\* C12: a pattern search never fails, and returns one entry per pattern, in
\* the order of the patterns: the address of the match with the lowest
\* address inside the first qualifying region, in ascending order of
\* address, that contains a match, or None if no qualifying region of the
\* scope contains one.
C12_FirstMatchPerPattern ==
    /\ func \in ByteSearches => pc # "crashed"
    /\ BytesReturned =>
          /\ Len(results) = Len(needles)
          /\ \A i \in 1 .. Len(needles) :
                results[i] =
                    FirstMatch(pages, image, ranges, protection, needles[i])

\* every range of the scope begins at a page boundary
PageAligned(scope) ==
    \A i \in 1 .. Len(scope) : scope[i][1] % PageSize = 0

\* the ranges of the scope are in ascending order of address
Ascending(scope) ==
    \A i, j \in 1 .. Len(scope) : i < j => scope[i][2] <= scope[j][1]

\* What the code keeps of C12: for scopes whose ranges begin at page
\* boundaries and are in ascending order, the search is as C12 says.
FirstMatchInOrderedScopes ==
    (PageAligned(ranges) /\ Ascending(ranges)) => C12_FirstMatchPerPattern

\* everything asked for is resolved
Resolved ==
    IF func \in ByteSearches THEN all_is_some(results) ELSE all_true(results)

\* the last element of a non-empty sequence
Last(seq) == seq[Len(seq)]

\* C13: short-circuit.  After a region was scanned the walk goes on only
\* while something is unresolved; when a search returns with everything
\* resolved, the last region query it issued is the one of the region whose
\* scan resolved the last item: no region is queried or scanned after it.
C13_ShortCircuit ==
    /\ (pc = "walk" /\ scanned # <<>>) => ~Resolved
    /\ (pc = "done" /\ scanned # <<>> /\ Resolved) =>
          /\ Last(queried) = Last(scanned).search_base
          /\ Len(queried) >= Len(scanned)

\* C13 witness: a single pattern was found in a region R1, the search has
\* returned, and a qualifying region R2 of the scope that lies behind R1
\* was never queried
C13_Witness ==
    /\ BytesReturned
    /\ Len(needles) = 1
    /\ results[1] # None
    /\ \E r \in QualifyingRegions(pages, ranges, protection) :
          /\ r.BaseAddress > Last(scanned).BaseAddress
          /\ \A k \in 1 .. Len(queried) : queried[k] # r.BaseAddress

\* C14: a search with no pattern and no address issues no region query.
C14_EmptyListNoQuery ==
    (func # "none" /\ Len(needles) = 0) =>
        /\ queried = <<>>
        /\ pc = "done" => results = <<>>

\* The part of C14 the code keeps: the result of such a search is empty.
EmptyListEmptyResult ==
    (func # "none" /\ Len(needles) = 0) => results = <<>> /\ pc # "crashed"

\* the page of address a, as a region of one page
PageOf(layout, a) ==
    IF a >= UserTop THEN Free ELSE layout[a \div PageSize]

\* a queried region is handed to the search if and only if it qualifies
OnlyQualifyingRegionsSearched ==
    /\ \A k \in 1 .. Len(scanned) :
          Qualifying(VirtualQuery(pages, scanned[k].search_base), protection)
    /\ \A k \in 1 .. Len(queried) :
          Qualifying(VirtualQuery(pages, queried[k]), protection)
             => \E j \in 1 .. Len(scanned) :
                    scanned[j].search_base = queried[k]

\* C15: a queried region is handed to the search if and only if it is
\* committed and its protection is one of the filter's (any readable one if
\* no filter is given); and no result comes from memory that is not
\* committed or whose protection is outside the filter: every byte of a
\* reported match, and every address reported found, lies in a page that is
\* committed with a protection of the filter.
C15_RegionFilter ==
    /\ OnlyQualifyingRegionsSearched
    /\ \A i \in 1 .. Len(results) :
          IF func \in ByteSearches
          THEN results[i] # None =>
                  \A a \in results[i].val ..
                           results[i].val + Len(needles[i]) - 1 :
                      Qualifying(PageOf(pages, a), protection)
          ELSE results[i] => Qualifying(PageOf(pages, needles[i]), protection)

\* the letters that differ in case only
CaseVariants == {{"a", "A"}, {"d", "D"}, {"g", "G"}, {"l", "L"}}

\* the names are equal when case is ignored
SameIgnoringCase(name1, name2) ==
    /\ Len(name1) = Len(name2)
    /\ \A i \in 1 .. Len(name1) :
          \/ name1[i] = name2[i]
          \/ \E v \in CaseVariants : {name1[i], name2[i]} \subseteq v

ModuleSearches ==
    {"find_bytes", "find_addresses", "find_addresses_write",
     "find_addresses_exec"}

\* C16: find_bytes and find_addresses (and its two presets), called with
\* module names, search exactly the ranges of the discovered modules whose
\* name equals a requested name when case is ignored, and nothing if no
\* requested name is discovered; called with no module name they search the
\* one range from 0x1000 to the top of the address space.
C16_ScopeResolution ==
    func \in ModuleSearches =>
        IF module_names # <<>>
        THEN {ranges[i] : i \in 1 .. Len(ranges)} =
                 {modules[name] : name \in
                     {n \in DOMAIN modules :
                         \E i \in 1 .. Len(module_names) :
                             SameIgnoringCase(module_names[i], n)}}
        ELSE ranges = <<<<PageSize, UsizeMax>>>>

\* C16 witness: after discovery, a search was called with the names "Dl"
\* and "ga", written in another case than the modules' names; it walks the
\* ranges of both modules
C16_Witness ==
    /\ func = "find_bytes"
    /\ module_names = <<<<"D", "l">>, <<"g", "a">>>>
    /\ discovered = Ok(<<>>)
    /\ ranges = <<<<4, 8>>, <<2, 4>>>>
    /\ pc = "done"

\* an address search has returned
AddressesReturned == pc = "done" /\ func \notin ByteSearches

\* C17: the flag of an address is true if and only if the address lies in
\* the [base, base + size) the region query reported for some qualifying
\* region of the scope.
C17_AddressFlags ==
    AddressesReturned =>
        /\ Len(results) = Len(needles)
        /\ \A i \in 1 .. Len(needles) :
              results[i] <=>
                  \E r \in QualifyingRegions(pages, ranges, protection) :
                      InRegion(needles[i], r)

\* What the code keeps of C17: the flags are as C17 says for scopes whose
\* ranges begin at page boundaries.
AddressFlagsInAlignedScopes ==
    PageAligned(ranges) => C17_AddressFlags

\* a discovery service failed: the enumeration, or the base name or the
\* (base, size) of an enumerated module
DiscoveryFailure(os) ==
    \/ ~os.enumerated
    \/ \E i \in 1 .. Len(os.modules) :
          \/ os.modules[i].name.num_chars = 0
          \/ ~os.modules[i].name.utf16
          \/ os.modules[i].info = None

\* C18: if a discovery service failed, discover_modules returns an error;
\* when it returns Ok, every enumerated module has its entry.
C18_NoFailureMasked ==
    discovered # None =>
        /\ DiscoveryFailure(loaded) => discovered.tag = "Err"
        /\ discovered.tag = "Ok" => Cardinality(DOMAIN modules) = Len(loaded.modules)

\* The part of C18 the code keeps: a failure of EnumProcessModules or of
\* GetModuleInformation is returned.
EnumerationAndInfoFailuresReturned ==
    (discovered # None
        /\ (~loaded.enumerated
              \/ \E i \in 1 .. Len(loaded.modules) :
                    /\ loaded.modules[i].info = None
                    /\ loaded.modules[i].name.num_chars # 0
                    /\ loaded.modules[i].name.utf16))
        => discovered.tag = "Err"

\* a step of the walk that issues a region query
Queries == Len(queried') = Len(queried) + 1

\* the query is answered with a region and the walk stays in its range,
\* further on
Advance ==
    /\ Queries
    /\ VirtualQuery(pages, walk_addr).result # 0
    /\ range_i' = range_i
    /\ walk_addr' > walk_addr

\* line 97: the scan has found everything, the results are returned
ShortCircuit == Advance /\ pc' = "done" /\ Resolved'

\* line 92, or line 95 with something unresolved: the loop goes round
GoesOn == Advance /\ pc' = "walk" /\ (results' # <<>> => ~Resolved')

\* the search function has faulted inside its scan: the call ends there
\* (the scanned bytes are the subject of C23)
Faults == Advance /\ pc' = "crashed"

\* line 79: the walk address has reached the range end, the range is left
RangeEnd ==
    /\ ~Queries
    /\ range_i <= Len(ranges)
    /\ walk_addr >= ranges[range_i][2]
    /\ range_i' = range_i + 1
    /\ pc' = "walk"

\* line 85: the region query reports end-of-space, the range is left
EndOfSpace ==
    /\ Queries
    /\ VirtualQuery(pages, walk_addr).result = 0
    /\ range_i' = range_i + 1
    /\ pc' = "walk"

\* line 102: no range is left, the results are returned
RangesExhausted == ~Queries /\ range_i > Len(ranges) /\ pc' = "done"

\* what is left of the walk: the ranges not yet left, then the addresses of
\* the current range above the walk address
Remaining ==
    IF pc # "walk" THEN 0
    ELSE 1 + (Len(ranges) + 1 - range_i) * (UsizeMax + 2)
           + (IF InRange THEN ranges[range_i][2] - walk_addr ELSE 0)

\* a step of the walk can be taken
WalkStep ==
    ReturnResults \/ RangeWalked \/ QueryFails \/ SkipRegion \/ ScanRegion

NoFaultInAlignedScopes == PageAligned(ranges) => pc # "crashed"

\* the searches over explicit ranges
RangeSearches == {"find_bytes_in_ranges", "find_addresses_in_ranges"}

\* [lo, hi) lies inside [from_addr, to_addr)
Inside(lo, hi, from_addr, to_addr) == from_addr <= lo /\ hi <= to_addr

\* the bytes of scan s lie inside the [base, base + size) the region query
\* reported for its region
ScanInsideRegion(s) ==
    Inside(s.search_base, s.search_base + s.region_size,
           s.BaseAddress, s.BaseAddress + s.region_size)

\* the bytes of scan s lie inside the range that was being walked
ScanInsideRange(s) ==
    Inside(s.search_base, s.search_base + s.region_size, s.start, s.end)

\* address a lies inside one of the requested ranges
InRanges(a) ==
    \E i \in 1 .. Len(ranges) : ranges[i][1] <= a /\ a < ranges[i][2]

\* address a lies inside a qualifying region of the scope
InQualifyingRegion(a) ==
    \E r \in QualifyingRegions(pages, ranges, protection) : InRegion(a, r)

\* C23: in a search over explicit [start, end) ranges the bytes scanned for
\* each visited region lie inside the region's reported [base, base + size)
\* and inside the requested range; every reported match address and every
\* address reported found lies inside one of the requested ranges and inside
\* a qualifying region.
C23_ScanBounds ==
    func \in RangeSearches =>
        /\ \A k \in 1 .. Len(scanned) :
              ScanInsideRegion(scanned[k]) /\ ScanInsideRange(scanned[k])
        /\ \A i \in 1 .. Len(results) :
              IF func \in ByteSearches
              THEN results[i] # None =>
                      InRanges(results[i].val)
                          /\ InQualifyingRegion(results[i].val)
              ELSE results[i] =>
                      InRanges(needles[i]) /\ InQualifyingRegion(needles[i])

\* What the code keeps of C23: every scan begins inside the range that is
\* being walked and inside the region the query reported (it is not cut at
\* the range end),
ScanBeginsInsideRangeAndRegion ==
    \A k \in 1 .. Len(scanned) :
        /\ scanned[k].start <= scanned[k].search_base
        /\ scanned[k].search_base < scanned[k].end
        /\ InRegion(scanned[k].search_base,
                    [BaseAddress |-> scanned[k].BaseAddress,
                     RegionSize |-> scanned[k].region_size])

\* and in scopes whose ranges begin at page boundaries the scanned bytes are
\* those of the reported region, and what is reported lies in a qualifying
\* region.
ScanInsideRegionInAlignedScopes ==
    PageAligned(ranges) =>
        /\ \A k \in 1 .. Len(scanned) : ScanInsideRegion(scanned[k])
        /\ \A i \in 1 .. Len(results) :
              IF func \in ByteSearches
              THEN results[i] # None => InQualifyingRegion(results[i].val)
              ELSE results[i] => InQualifyingRegion(needles[i])

---------------------------------------------------------------------------
(* The commas of a template, checked under SpecPatch                       *)

\* the token begins an element that is complete from token i on: a byte
\* literal, a zero-operand pseudo-instruction, or an identifier followed by
\* an identifier
ZeroOperandAt(content, i) ==
    content[i].k = "ident" /\ content[i].s \in DOMAIN ByteInstructions

PairAt(content, i) ==
    /\ content[i].k = "ident"
    /\ ~ZeroOperandAt(content, i)
    /\ i + 1 <= Len(content)
    /\ content[i + 1].k = "ident"

RECURSIVE WithoutCommasFrom(_, _, _)
\* the template from token i on without the comma that follows an element,
\* for the elements whose kind is in `kinds`; what is not an element is kept
\* as it is
WithoutCommasFrom(content, i, kinds) ==
    IF i > Len(content) THEN <<>>
    ELSE IF content[i].k = "lit"
    THEN <<content[i]>> \o
         WithoutCommasFrom(content,
             IF "literal" \in kinds THEN SkipComma(content, i + 1) ELSE i + 1,
             kinds)
    ELSE IF ZeroOperandAt(content, i)
    THEN <<content[i]>> \o
         WithoutCommasFrom(content,
             IF "zero-operand" \in kinds
             THEN SkipComma(content, i + 1) ELSE i + 1,
             kinds)
    ELSE IF PairAt(content, i)
    THEN <<content[i], content[i + 1]>> \o
         WithoutCommasFrom(content,
             IF "pair" \in kinds THEN SkipComma(content, i + 2) ELSE i + 2,
             kinds)
    ELSE <<content[i]>> \o WithoutCommasFrom(content, i + 1, kinds)

\* For a template in which every comma follows an element of a kind in
\* `kinds`, one comma at most per element: the template and the template
\* without its commas are both accepted or both rejected, and if accepted
\* compile to the same buffer and table
CommasOptionalAfter(kinds) ==
    LET bare == WithoutCommasFrom(template, 1, kinds)
    IN  (Compiled /\ \A i \in 1 .. Len(bare) : bare[i].k # "comma") =>
            ((patch(bare).tag = "Ok" \/ compiled.tag = "Ok")
                => compiled = patch(bare))

\* C22: a template is accepted, and compiles to the same buffer and
\* placeholder table, whether or not a comma follows each byte literal, each
\* `mnemonic target` pair and each zero-operand pseudo-instruction.
C22_CommasOptional ==
    CommasOptionalAfter({"literal", "pair", "zero-operand"})

\* What the code keeps of C22: the comma is optional after a byte literal
\* and after a `mnemonic target` pair.
CommasOptionalAfterLiteralsAndPairs ==
    CommasOptionalAfter({"literal", "pair"})

\* a template with a comma behind a byte literal and a pair, or with a comma
\* behind a pair, has been accepted
CommasAccepted ==
    /\ Compiled
    /\ compiled.tag = "Ok"
    /\ Len(compiled.val.fields) = 1
    /\ \E i \in 2 .. Len(template) :
          /\ template[i].k = "comma"
          /\ template[i - 1].k \in {"lit", "ident"}
    /\ \E i \in 1 .. Len(template) : template[i].k = "lit"

=============================================================================
